---- MODULE Spec2Model ----
(***************************************************************************)
(* Lefty's graffiti wall: the item store (lib/graffiti.ts: getGraffiti,    *)
(* addGraffiti), the snapshot compositor (generateWallSnapshot) and the    *)
(* MCP session registry (mcp/routes.ts: createMcpRouter).                  *)
(*                                                                         *)
(* Every async function is cut at its awaits that touch shared state: the  *)
(* data file, the snapshot files, the registry maps.  fs.writeFile is two  *)
(* steps, as in Node: open with O_TRUNC|O_CREAT (the file holds zero       *)
(* bytes), then the write of the data at offset 0 of that descriptor.      *)
(***************************************************************************)
EXTENDS Integers, Sequences, FiniteSets, TLC

\* ------------------------------------------------------------------ bounds
NumTasks == 2
MaxItems == 2
MaxClock == 2
MaxSessions == 3
MaxHooks == 2

\* snapshotKey of the empty wall ("empty"); the other keys are String(ms), ms >= 1
EmptyKey == 0

\* sharp(backgroundBuffer).metadata() of the background image in /public
Background == [width |-> 1000, height |-> 800]

Tasks == 1..NumTasks
Keys == 0..MaxClock

\* ------------------------------------------------------------------- items
\* What a tool call hands to addGraffiti, reduced to what the store and the
\* compositor branch on: the variant, and for an image its reference.
\* DataUrl holds a PNG of one pixel; GarbageUrl holds one zero byte, which no
\* decoder takes for an image; RemoteUrl serves a PNG when it answers.
DataUrl ==
  "data:image/png;base64,iVBORw0KGgoAAAANSUhEUgAAAAEAAAABCAYAAAAfFcSJAAAADUlEQVR42mNkYPhfDwAChwGA60e6kgAAAABJRU5ErkJggg=="
BadUrl == "ftp://example.com/tag.png"
GarbageUrl == "data:image/png;base64,AA=="
RemoteUrl == "https://example.com/tag.png"

\* Numbers of the tool layer (percentages, fractions) are written in
\* hundredths: 5000 is 50, 50 is 0.5, 100 is 1.  A text tag has no dimensions;
\* NoBox stands for their absence.  Plain is the schema's default rotation 0
\* and opacity 1.
Centre == [x |-> 5000, y |-> 5000]
Box == [width |-> 2000, height |-> 2000]
NoBox == [width |-> 0, height |-> 0]
Plain == [rotation |-> 0, opacity |-> 100]

Text ==
  [type |-> "text", imageUrl |-> "", position |-> Centre, dimensions |-> NoBox,
   rotation |-> Plain.rotation, opacity |-> Plain.opacity]

Image(url) ==
  [type |-> "image", imageUrl |-> url, position |-> Centre, dimensions |-> Box,
   rotation |-> Plain.rotation, opacity |-> Plain.opacity]

NewItems == {Text, Image(DataUrl), Image(BadUrl)}

\* the walls of the runs that look at what a render does with its inputs
RenderItems == {Text, Image(BadUrl), Image(GarbageUrl)}

\* the walls of the runs that wait for a remote source
LiveItems == {Text, Image(RemoteUrl)}

\* the concurrent specification posts text tags only: no step of the store
\* reads an item's variant
ConcItems == {Text}

NoItem ==
  [id |-> 0, createdAt |-> 0, type |-> "none", imageUrl |-> "",
   position |-> Centre, dimensions |-> NoBox,
   rotation |-> Plain.rotation, opacity |-> Plain.opacity]

\* An entry of the data file that is no GraffitiItem: an object with a
\* createdAt string and nothing else, {"createdAt": "1970-01-01T00:00:00.001Z"}.
\* type "junk" stands for its missing type, imageUrl "" for its missing
\* imageUrl, and position and dimensions are never read from it.
Junk ==
  [id |-> 0, createdAt |-> 1, type |-> "junk", imageUrl |-> "",
   position |-> Centre, dimensions |-> NoBox,
   rotation |-> Plain.rotation, opacity |-> Plain.opacity]

\* a next that always takes the same id
MkItemOneId(new, id, at) ==
  [id |-> 1, createdAt |-> at, type |-> new.type, imageUrl |-> new.imageUrl,
   position |-> new.position, dimensions |-> new.dimensions,
   rotation |-> new.rotation, opacity |-> new.opacity]

\* addGraffiti: next = { ...item, id: randomUUID(), createdAt: now }
MkItem(new, id, at) ==
  [id |-> id, createdAt |-> at, type |-> new.type, imageUrl |-> new.imageUrl,
   position |-> new.position, dimensions |-> new.dimensions,
   rotation |-> new.rotation, opacity |-> new.opacity]

Range(s) == { s[i] : i \in DOMAIN s }
Ids(s) == { s[i].id : i \in DOMAIN s }

\* ------------------------------------------------------------- pure helpers
\* Array.prototype.sort with (a, b) => a.createdAt.localeCompare(b.createdAt):
\* stable, ascending; ISO-8601 strings of one format compare as their instants.
\* an insertion that puts an item before the items it ties with
RECURSIVE InsertBeforeTies(_, _)
InsertBeforeTies(s, x) ==
  IF s = <<>> THEN <<x>>
  ELSE IF s[Len(s)].createdAt < x.createdAt THEN Append(s, x)
  ELSE Append(InsertBeforeTies(SubSeq(s, 1, Len(s) - 1), x), s[Len(s)])

RECURSIVE InsertSorted(_, _)
InsertSorted(s, x) ==
  IF s = <<>> THEN <<x>>
  ELSE IF s[Len(s)].createdAt <= x.createdAt THEN Append(s, x)
  ELSE Append(InsertSorted(SubSeq(s, 1, Len(s) - 1), x), s[Len(s)])

RECURSIVE SortByCreatedAt(_)
SortByCreatedAt(s) ==
  IF s = <<>> THEN <<>>
  ELSE InsertSorted(SortByCreatedAt(SubSeq(s, 1, Len(s) - 1)), s[Len(s)])

\* ------------------------------------------------------------------- files
\* A file is absent, holds zero bytes (opened for writing, nothing written yet),
\* holds one complete document, or holds a document followed by the tail of a
\* longer one that another descriptor wrote ("garbled").  len is its length,
\* counted in item records.
AbsentFile == [kind |-> "absent", items |-> <<>>, len |-> 0]

\* a data file that holds the JSON document {} : it parses, to no array
ObjectFile == [kind |-> "object", items |-> <<>>, len |-> 1]

\* a data file cut in the middle of a document
CutFile == [kind |-> "garbled", items |-> <<>>, len |-> 1]
ZeroFile == [kind |-> "zero", items |-> <<>>, len |-> 0]
JsonFile(items) == [kind |-> "json", items |-> items, len |-> Len(items)]

\* fs.writeFile, first half: open(path, "w")
OpenTrunc(f) == ZeroFile

\* fs.writeFile, second half: write(fd, data) from offset 0; nothing truncates
\* after it, so bytes another writer put beyond the end of data stay in the file.
WriteData(f, items) ==
  IF f.len > Len(items)
  THEN [kind |-> "garbled", items |-> <<>>, len |-> f.len]
  ELSE JsonFile(items)

\* JSON.parse(raw) returns, and parsed.sort is a function
Parseable(f) == f.kind = "json"

\* a push that forgets what was read
PushedAlone(existing, next) == <<next>>

\* addGraffiti: existing.push(next)
Pushed(existing, next) == Append(existing, next)

\* ---------------------------------------------------------------- snapshots
\* loadImageSource(imageUrl) returns bytes (TRUE) or null (FALSE); for
\* RemoteUrl, once the fetch has settled
LoadImageSource(url) ==
  IF url \in {DataUrl, GarbageUrl} THEN TRUE
  ELSE IF url = RemoteUrl THEN TRUE
  ELSE FALSE

\* sharp(imageSource) ... .toBuffer() returns: the bytes are an image
Decodes(url) == url # GarbageUrl

\* The item loop of generateWallSnapshot throws on item it: its bytes are no
\* image, or it has no imageUrl for loadImageSource to match.
Throws(it) ==
  \/ it.type = "image" /\ LoadImageSource(it.imageUrl) /\ ~Decodes(it.imageUrl)
  \/ it.type = "junk"

\* fetch(imageUrl) is awaited for item it
Fetched(it) == it.type = "image" /\ it.imageUrl = RemoteUrl

\* ------------------------------------------------------------ local paths
\* A path is the sequence of its characters.  The process runs in /a, so the
\* asset root is /a/p ("p" for public); "e" is any other name.  Beside the
\* root lie /a/pe, whose name starts with the root's, /a/e and /e.
MaxPath == 6

PathChars == {"/", ".", "p", "e"}

PUBLIC_DIR == <<"/", "a", "/", "p">>

\* the files that exist: one under the root, three outside it
Files ==
  {<<"/", "a", "/", "p", "/", "e">>,
   <<"/", "a", "/", "p", "e">>,
   <<"/", "a", "/", "e">>,
   <<"/", "e">>}

\* the local image references a client may store: "/" and what follows
LocalUrls ==
  {u \in UNION {[1..n -> PathChars] : n \in 1..MaxPath} : u[1] = "/"}

\* str.split("/"), the segment being read in cur
RECURSIVE SplitFrom(_, _)
SplitFrom(str, cur) ==
  IF str = <<>> THEN <<cur>>
  ELSE IF Head(str) = "/" THEN <<cur>> \o SplitFrom(Tail(str), <<>>)
  ELSE SplitFrom(Tail(str), Append(cur, Head(str)))

Split(str) == SplitFrom(str, <<>>)

\* path normalisation: empty and "." segments are dropped, ".." drops the
\* segment before it and is itself dropped at the top
RECURSIVE NormalizeSegments(_, _)
NormalizeSegments(segs, acc) ==
  IF segs = <<>> THEN acc
  ELSE IF Head(segs) = <<>> \/ Head(segs) = <<".">>
  THEN NormalizeSegments(Tail(segs), acc)
  ELSE IF Head(segs) = <<".", ".">>
  THEN NormalizeSegments(Tail(segs),
                         IF acc = <<>> THEN acc ELSE SubSeq(acc, 1, Len(acc) - 1))
  ELSE NormalizeSegments(Tail(segs), Append(acc, Head(segs)))

RECURSIVE JoinSegments(_)
JoinSegments(segs) ==
  IF segs = <<>> THEN <<>>
  ELSE <<"/">> \o Head(segs) \o JoinSegments(Tail(segs))

\* the absolute path of segments segs
Absolute(segs) == IF segs = <<>> THEN <<"/">> ELSE JoinSegments(segs)

\* path.resolve(from, to): an absolute to stands alone, a relative one
\* continues from
PathResolve(from, to) ==
  IF to # <<>> /\ Head(to) = "/"
  THEN Absolute(NormalizeSegments(Split(to), <<>>))
  ELSE Absolute(NormalizeSegments(Split(from) \o Split(to), <<>>))

\* imageUrl.replace(/^\/+/, "")
RECURSIVE StripLeadingSlashes(_)
StripLeadingSlashes(str) ==
  IF str # <<>> /\ Head(str) = "/" THEN StripLeadingSlashes(Tail(str)) ELSE str

\* String.prototype.startsWith
StartsWith(str, prefix) ==
  Len(str) >= Len(prefix) /\ SubSeq(str, 1, Len(prefix)) = prefix

\* a guard that compares with the root and no separator after it
InsideRootNoSep(resolvedPath, publicRoot) == StartsWith(resolvedPath, publicRoot)

\* resolvedPath.startsWith(`${publicRoot}${path.sep}`)
InsideRoot(resolvedPath, publicRoot) ==
  StartsWith(resolvedPath, publicRoot \o <<"/">>)

NoPath == <<>>

\* fs.readFile(path): bytes for a file, a rejection for anything else
ReadFile(path) == path \in Files

\* probe: the last loadImageSource call on a local path: the reference, the
\* path handed to fs.readFile (NoPath: none), and whether bytes came back
VARIABLES probe

pathVars == <<probe>>

NoProbe == [url |-> NoPath, read |-> NoPath, bytes |-> FALSE]

\* loadImageSource(imageUrl), the branch of imageUrl.startsWith("/")
LoadLocalSource(imageUrl) ==
  LET publicRoot == PathResolve(PUBLIC_DIR, <<>>)
      resolvedPath == PathResolve(PUBLIC_DIR, StripLeadingSlashes(imageUrl))
  IN IF ~InsideRoot(resolvedPath, publicRoot)
     THEN [url |-> imageUrl, read |-> NoPath, bytes |-> FALSE]
     ELSE [url |-> imageUrl, read |-> resolvedPath, bytes |-> ReadFile(resolvedPath)]

\* a background check that lets every state of the asset pass
BackgroundAlwaysUsable(b) == TRUE

\* resolveBackgroundPath() finds a file, fs.readFile reads it, and its
\* metadata has a width and a height
BackgroundUsable(b) == b = "ok"

\* the states of the background asset in /public
BackgroundStates == {"ok", "missing", "nodims"}

RECURSIVE MaxCreatedAt(_)
MaxCreatedAt(s) ==
  IF s = <<>> THEN 0
  ELSE LET m == MaxCreatedAt(Tail(s))
       IN IF Head(s).createdAt > m THEN Head(s).createdAt ELSE m

\* snapshotKey: "empty", or the latest createdAt in milliseconds
Fingerprint(s) == IF s = <<>> THEN EmptyKey ELSE MaxCreatedAt(s)

Skipped(it) == it.type = "image" /\ ~LoadImageSource(it.imageUrl)

\* an overlays array filled from the back: the first item ends on top
RECURSIVE OverlaysReversed(_)
OverlaysReversed(s) ==
  IF s = <<>> THEN <<>>
  ELSE IF Skipped(Head(s)) THEN OverlaysReversed(Tail(s))
  ELSE OverlaysReversed(Tail(s)) \o <<Head(s).id>>

\* the overlays array of generateWallSnapshot: one per item, in order, an
\* image whose source is null left out
RECURSIVE Overlays(_)
Overlays(s) ==
  IF s = <<>> THEN <<>>
  ELSE IF Skipped(Head(s)) THEN Overlays(Tail(s))
  ELSE <<Head(s).id>> \o Overlays(Tail(s))

RECURSIVE SkippedImages(_)
SkippedImages(s) ==
  IF s = <<>> THEN 0
  ELSE (IF Skipped(Head(s)) THEN 1 ELSE 0) + SkippedImages(Tail(s))

\* `/uploads/snapshots/wall-snapshot-${snapshotKey}.png`
SnapshotUrl(key) == <<"wall-snapshot", key>>

NoSnap ==
  [imageUrl |-> <<"none", 0>>, width |-> 0, height |-> 0, itemCount |-> 0,
   skippedImages |-> 0, fromCache |-> FALSE, snapshotKey |-> 0]

\* A snapshot file: its pixels are the overlays composited on the background.
\* made is the result the call that wrote it returned (kept beside the file
\* for the properties; the PNG itself records only its pixel size).
AbsentSnap ==
  [kind |-> "absent", width |-> 0, height |-> 0, overlays |-> <<>>, made |-> NoSnap]
ZeroSnap ==
  [kind |-> "zero", width |-> 0, height |-> 0, overlays |-> <<>>, made |-> NoSnap]

\* the SnapshotResult of a fresh composite
Rendered(s, key) ==
  [imageUrl |-> SnapshotUrl(key), width |-> Background.width, height |-> Background.height,
   itemCount |-> Len(s), skippedImages |-> SkippedImages(s),
   fromCache |-> FALSE, snapshotKey |-> key]

\* the SnapshotResult of a cache hit on file c
Cached(s, key, c) ==
  [imageUrl |-> SnapshotUrl(key), width |-> c.width, height |-> c.height,
   itemCount |-> Len(s), skippedImages |-> 0,
   fromCache |-> TRUE, snapshotKey |-> key]

PngSnap(s, key) ==
  [kind |-> "png", width |-> Background.width, height |-> Background.height,
   overlays |-> Overlays(s), made |-> Rendered(s, key)]

\* the snapshot file after the first chunk of fs.writeFile and before the
\* last: the PNG header, with the pixel size, is there, the image data is cut
PartialSnap(s, key) ==
  [kind |-> "partial", width |-> Background.width, height |-> Background.height,
   overlays |-> Overlays(s), made |-> NoSnap]

\* a cache lookup that never finds the file
CacheHitNever(c) == FALSE

\* fs.access(outPath) and sharp(outPath).metadata() both return: the file
\* exists and its header can be read (metadata() does not decode the pixels)
CacheHit(c) == c.kind \in {"png", "partial"}

\* --------------------------------------------------------- session registry
\* createMcpRouter: the transports and servers maps, keyed by session id.  A
\* handler is one McpServer with the one StreamableHTTPServerTransport it is
\* connected to; the POST route creates them together.  Session ids and
\* handlers are numbered as they are made (randomUUID never repeats); 0 is
\* "no session id" / undefined.
Sids == 1..MaxSessions
Handlers == 1..MaxSessions

\* a session id no initialization ever issues
BogusSid == MaxSessions + 1

VARIABLES
  transports,   \* Map<string, StreamableHTTPServerTransport>: sid -> handler, 0 = no entry
  servers,      \* Map<string, McpServer>: sid -> handler, 0 = no entry
  sessionId,    \* per handler: transport.sessionId, 0 = undefined
  closes,       \* per handler: how often the registry has called its server's close()
  nextSid,      \* the next randomUUID() of sessionIdGenerator
  nextHandler,  \* the next createMcpServer()
  hooks,        \* history, per handler: how often its transport.onclose has run
  torn,         \* history: the session ids whose teardown has been processed
  resp          \* history: the last request and its response

sessVars ==
  <<transports, servers, sessionId, closes, nextSid, nextHandler, hooks, torn, resp>>

\* what the router and the handlers it made hold
registry == <<transports, servers, sessionId, closes, nextSid, nextHandler>>

NoResp ==
  [method |-> "none", sid |-> 0, body |-> "none", status |-> 0,
   wasTorn |-> FALSE, created |-> 0, issued |-> 0,
   handled |-> FALSE, changed |-> FALSE]

RegistryInit ==
  /\ transports = [s \in Sids |-> 0]
  /\ servers = [s \in Sids |-> 0]
  /\ sessionId = [h \in Handlers |-> 0]
  /\ closes = [h \in Handlers |-> 0]
  /\ nextSid = 1
  /\ nextHandler = 1
  /\ hooks = [h \in Handlers |-> 0]
  /\ torn = {}
  /\ resp = NoResp

\* the mcp-session-id headers a client may send: none, an issued id, a bogus one
Headers == {0} \cup {s \in Sids : s < nextSid} \cup {BogusSid}

Bodies == {"initialize", "tools/call"}

\* an isInitializeRequest that takes every body for an initialization
IsAnyRequest(body) == TRUE

\* isInitializeRequest(req.body)
IsInitializeRequest(body) == body = "initialize"

\* sessionId ? transports.get(sessionId) : undefined
Lookup(sid) == IF sid \in Sids THEN transports[sid] ELSE 0

\* What a request leaves in resp: the request, the status of its response,
\* the handler and session id it created, whether transport.handleRequest was
\* reached (the only way to a tool and so to addGraffiti), and whether the
\* registry is another after it.
Response(method, sid, body, status, created, issued, handled) ==
  [method |-> method, sid |-> sid, body |-> body, status |-> status,
   wasTorn |-> sid \in torn, created |-> created, issued |-> issued,
   handled |-> handled, changed |-> registry' # registry]

\* a generator that hands out one id again and again
SameSidAgain == IF nextSid > 1 THEN 1 ELSE nextSid

\* sessionIdGenerator: () => randomUUID()
GeneratedSid == nextSid

\* an onclose hook that forgets transports.delete(id)
OnCloseKeepsTransport(h) ==
  LET id == sessionId[h]
  IN /\ UNCHANGED transports
     /\ servers' = IF id = 0 THEN servers ELSE [servers EXCEPT ![id] = 0]
     /\ closes' = IF id # 0 /\ servers[id] # 0
                  THEN [closes EXCEPT ![servers[id]] = @ + 1] ELSE closes
     /\ hooks' = [hooks EXCEPT ![h] = @ + 1]
     /\ torn' = IF id = 0 THEN torn ELSE torn \cup {id}

\* an onclose hook that closes its own server without looking it up in servers
OnCloseWithoutLookup(h) ==
  LET id == sessionId[h]
  IN /\ transports' = IF id = 0 THEN transports ELSE [transports EXCEPT ![id] = 0]
     /\ servers' = IF id = 0 THEN servers ELSE [servers EXCEPT ![id] = 0]
     /\ closes' = IF id # 0 THEN [closes EXCEPT ![h] = @ + 1] ELSE closes
     /\ hooks' = [hooks EXCEPT ![h] = @ + 1]
     /\ torn' = IF id = 0 THEN torn ELSE torn \cup {id}

\* transport.onclose of handler h.  closedServer.close() closes the transport
\* again, which re-enters this hook: by then both entries are gone, so the
\* nested run deletes nothing and closes nothing.
OnClose(h) ==
  LET id == sessionId[h]
  IN /\ transports' = IF id = 0 THEN transports ELSE [transports EXCEPT ![id] = 0]
     /\ servers' = IF id = 0 THEN servers ELSE [servers EXCEPT ![id] = 0]
     /\ closes' = IF id # 0 /\ servers[id] # 0
                  THEN [closes EXCEPT ![servers[id]] = @ + 1] ELSE closes
     /\ hooks' = [hooks EXCEPT ![h] = @ + 1]
     /\ torn' = IF id = 0 THEN torn ELSE torn \cup {id}

\* router.post("/mcp")
Post(sid, body) ==
  LET transport == Lookup(sid)
  IN IF transport = 0
     THEN IF ~IsInitializeRequest(body)
          THEN \* res.status(400): "Client must send initialize request first"
               /\ UNCHANGED <<transports, servers, sessionId, closes, nextSid,
                              nextHandler, hooks, torn>>
               /\ resp' = Response("POST", sid, body, 400, 0, 0, FALSE)
          ELSE \* createMcpServer(), new transport, connect; handleRequest runs
               \* the initialization: sessionIdGenerator, onsessioninitialized
               /\ nextHandler <= MaxSessions
               /\ sessionId' = [sessionId EXCEPT ![nextHandler] = GeneratedSid]
               /\ transports' = [transports EXCEPT ![GeneratedSid] = nextHandler]
               /\ servers' = [servers EXCEPT ![GeneratedSid] = nextHandler]
               /\ nextSid' = nextSid + 1
               /\ nextHandler' = nextHandler + 1
               /\ UNCHANGED <<closes, hooks, torn>>
               /\ resp' = Response("POST", sid, body, 200, nextHandler, GeneratedSid, TRUE)
     ELSE \* transport.handleRequest on a live session: a second
          \* initialization is refused, any other message is served
          /\ UNCHANGED <<transports, servers, sessionId, closes, nextSid,
                         nextHandler, hooks, torn>>
          /\ resp' = Response("POST", sid, body,
                              IF IsInitializeRequest(body) THEN 400 ELSE 200, 0, 0, TRUE)

\* router.get("/mcp")
Get(sid) ==
  /\ UNCHANGED <<transports, servers, sessionId, closes, nextSid, nextHandler,
                 hooks, torn>>
  /\ resp' = Response("GET", sid, "none", IF Lookup(sid) = 0 THEN 400 ELSE 200,
                      0, 0, Lookup(sid) # 0)

\* router.delete("/mcp"): transport.handleRequest ends the session, which
\* closes the transport and so runs its onclose
Delete(sid) ==
  IF Lookup(sid) = 0
  THEN /\ UNCHANGED <<transports, servers, sessionId, closes, nextSid,
                      nextHandler, hooks, torn>>
       /\ resp' = Response("DELETE", sid, "none", 400, 0, 0, FALSE)
  ELSE /\ OnClose(Lookup(sid))
       /\ UNCHANGED <<sessionId, nextSid, nextHandler>>
       /\ resp' = Response("DELETE", sid, "none", 200, 0, 0, TRUE)

\* transport.close() of a handler that has a session id, without a lookup in
\* the maps: the connection ends, a DELETE that found the transport before
\* another teardown ran reaches its close(), or closedServer.close() closes
\* the transport once more.  Each runs transport.onclose.
TransportClose(h) ==
  /\ sessionId[h] # 0
  /\ hooks[h] < MaxHooks
  /\ OnClose(h)
  /\ UNCHANGED <<sessionId, nextSid, nextHandler, resp>>

\* --------------------------------------------------------------- tool layer
\* createMcpServer: spray_text and spray_image.  Of their arguments the model
\* keeps image_url, image_blob, position, dimensions, rotation and opacity
\* (text, font, color and size pass through to addGraffiti as they are).
VARIABLES
  spray         \* history: the tool call made, its arguments and its outcome

toolVars == <<spray>>

\* an optional argument that was not supplied
Undefined == "<undefined>"

UploadUrl == "/uploads/0b0c6a5e-6d0f-4c55-9d0e-3f6f4a1f2b7c.png"

NoPair == [first |-> 0, second |-> 0]

NoSpray ==
  [tool |-> "none", image_url |-> Undefined, image_blob |-> Undefined,
   position |-> NoPair, dimensions |-> NoPair, style |-> Plain,
   error |-> FALSE, blob |-> "none", normalized |-> FALSE]

\* the numbers a client may send for a coordinate or a dimension: -0.01, 0,
\* 0.5, 1, 100, 100.01
Components == {-1, 0, 50, 100, 10000, 10001}

\* the rotations (-360.01, -360, 360, 360.01) and opacities (-0.01, 0, 1,
\* 1.01) a client may send
Styles == [rotation : {-36001, -36000, 36000, 36001}, opacity : {-1, 0, 100, 101}]

\* a percent that accepts every number
PercentUnchecked(n) == TRUE

Pairs == [first : Components, second : Components]

UrlInputs == {Undefined, RemoteUrl, "not a url"}

BlobInputs == {Undefined, "", "AA=="}

\* const percent = z.number().min(0).max(100)
Percent(n) == n >= 0 /\ n <= 10000

\* positionSchema, dimensionsSchema
PairSchema(pair) == Percent(pair.first) /\ Percent(pair.second)

\* const rotation = z.number().min(-360).max(360), const opacity =
\* z.number().min(0).max(1)
StyleSchema(style) ==
  /\ style.rotation >= -36000 /\ style.rotation <= 36000
  /\ style.opacity >= 0 /\ style.opacity <= 100

\* image_url: z.string().url().optional()
UrlSchema(u) == u = Undefined \/ u = RemoteUrl

\* Boolean(v) of an optional string
Truthy(v) == v # Undefined /\ v # ""

\* sprayImageInput's refine: Boolean(value.image_url || value.image_blob)
Refine(url, blob) == Truthy(url) \/ Truthy(blob)

\* const fractionRange = (value) => value >= 0 && value < 1
FractionRange(n) == n >= 0 /\ n < 100

\* a normalization that scales when either component is a fraction
NormalizeEither(first, second) ==
  IF ~(FractionRange(first) \/ FractionRange(second))
  THEN [first |-> first, second |-> second, normalized |-> FALSE]
  ELSE [first |-> first * 100, second |-> second * 100, normalized |-> TRUE]

NormalizePercentPair(first, second) ==
  IF ~(FractionRange(first) /\ FractionRange(second))
  THEN [first |-> first, second |-> second, normalized |-> FALSE]
  ELSE [first |-> first * 100, second |-> second * 100, normalized |-> TRUE]

\* saveImageBlob: the file it writes into UPLOAD_DIR, by the URL it returns
SaveImageBlob(blob) == UploadUrl

\* ------------------------------------------------------------------- state
VARIABLES
  file,      \* data/graffiti.json
  cache,     \* public/uploads/snapshots/wall-snapshot-<key>.png, per key
  now,       \* the clock, in milliseconds
  nextId,    \* the next randomUUID()
  pc,        \* per task: where its async function stands
  op,        \* per task: "append", "list" or "render"
  nxt,       \* addGraffiti: next
  items,     \* addGraffiti: existing; generateWallSnapshot: items
  key,       \* generateWallSnapshot: snapshotKey
  out,       \* per task: "none" while running, then "ok" or "throw"
  ret,       \* per task: what the call returned
  returned,  \* history: ids of the items addGraffiti has returned
  since,     \* history, per task: returned when the call started
  keysSeen,  \* history: snapshotKeys render calls have returned
  stale,     \* history: the id the last append returned and keysSeen at that
             \* return, if its createdAt differs from every other item's;
             \* NoStale otherwise, and once a render has started
  avoid,     \* history, per render task: stale when the call started
  hist,      \* history (sequential runs): the last two calls that ended
  preList,   \* history (sequential runs): what list() returned when the
             \* running call started
  composed,  \* history (sequential runs): the running call has composited
  born,      \* history: the createdAt of every item made so far, by id
  bg         \* the background asset in /public, one of BackgroundStates

vars ==
  <<file, cache, now, nextId, pc, op, nxt, items, key, out, ret,
    returned, since, keysSeen, stale, avoid, hist, preList, composed, born, bg,
    transports, servers, sessionId, closes, nextSid, nextHandler, hooks, torn, resp,
    spray, probe>>

storeVars ==
  <<file, cache, now, nextId, pc, op, nxt, items, key, out, ret,
    returned, since, keysSeen, stale, avoid, hist, preList, composed, born, bg>>

\* What a call returns: addGraffiti its item, getGraffiti its list,
\* generateWallSnapshot its SnapshotResult.  For a render, list is the items it
\* read and art the overlays in the file imageUrl names, at the return.
NoStale == [id |-> 0, keys |-> {}]

NoRet == [item |-> NoItem, list |-> <<>>, snap |-> NoSnap, art |-> <<>>]

\* getGraffiti() on file f, were it to run alone
ListView(f) == IF f.kind = "json" THEN SortByCreatedAt(f.items) ELSE <<>>

Init ==
  /\ file = AbsentFile
  /\ cache = [k \in Keys |-> AbsentSnap]
  /\ now = 1
  /\ nextId = 1
  /\ pc = [p \in Tasks |-> "idle"]
  /\ op = [p \in Tasks |-> "none"]
  /\ nxt = [p \in Tasks |-> NoItem]
  /\ items = [p \in Tasks |-> <<>>]
  /\ key = [p \in Tasks |-> 0]
  /\ out = [p \in Tasks |-> "none"]
  /\ ret = [p \in Tasks |-> NoRet]
  /\ returned = {}
  /\ since = [p \in Tasks |-> {}]
  /\ keysSeen = {}
  /\ stale = NoStale
  /\ avoid = [p \in Tasks |-> NoStale]
  /\ hist = <<>>
  /\ preList = <<>>
  /\ composed = FALSE
  /\ born = <<>>
  /\ bg = "ok"
  /\ spray = NoSpray
  /\ probe = NoProbe
  /\ RegistryInit

\* the call ends: its locals are dropped, its result is with the caller
Finish(p, o, r) ==
  /\ pc' = [pc EXCEPT ![p] = "done"]
  /\ out' = [out EXCEPT ![p] = o]
  /\ ret' = [ret EXCEPT ![p] = r]
  /\ nxt' = [nxt EXCEPT ![p] = NoItem]
  /\ items' = [items EXCEPT ![p] = <<>>]
  /\ key' = [key EXCEPT ![p] = 0]

Goto(p, l) ==
  /\ pc' = [pc EXCEPT ![p] = l]
  /\ UNCHANGED <<out, ret, nxt, items, key>>

\* new Date() advances
Tick ==
  /\ now < MaxClock
  /\ now' = now + 1
  /\ UNCHANGED <<file, cache, nextId, pc, op, nxt, items, key, out, ret,
                 returned, since, keysSeen, stale, avoid, born, bg>>

\* the caller has taken the result; the task is free for the next call
Return(p) ==
  /\ pc[p] = "done"
  /\ UNCHANGED <<born, bg>>
  /\ pc' = [pc EXCEPT ![p] = "idle"]
  /\ op' = [op EXCEPT ![p] = "none"]
  /\ out' = [out EXCEPT ![p] = "none"]
  /\ ret' = [ret EXCEPT ![p] = NoRet]
  /\ since' = [since EXCEPT ![p] = {}]
  /\ avoid' = [avoid EXCEPT ![p] = NoStale]
  /\ UNCHANGED <<file, cache, now, nextId, nxt, items, key, returned,
                 keysSeen, stale>>

\* addGraffiti(item) up to its first await: next = {...item, id, createdAt}
StartAppend(p, new) ==
  /\ pc[p] = "idle"
  /\ nextId <= MaxItems
  /\ nxt' = [nxt EXCEPT ![p] = MkItem(new, nextId, now)]
  /\ nextId' = nextId + 1
  /\ pc' = [pc EXCEPT ![p] = "access"]
  /\ op' = [op EXCEPT ![p] = "append"]
  /\ born' = Append(born, now)
  /\ UNCHANGED bg
  /\ UNCHANGED <<file, cache, now, items, key, out, ret, returned, since,
                 keysSeen, stale, avoid>>

\* getGraffiti() called on its own (GET /api/graffiti)
StartList(p) ==
  /\ pc[p] = "idle"
  /\ UNCHANGED <<born, bg>>
  /\ pc' = [pc EXCEPT ![p] = "access"]
  /\ op' = [op EXCEPT ![p] = "list"]
  /\ since' = [since EXCEPT ![p] = returned]
  /\ UNCHANGED <<file, cache, now, nextId, nxt, items, key, out, ret,
                 returned, keysSeen, stale, avoid>>

\* generateWallSnapshot() up to the first await of its getGraffiti()
StartRender(p) ==
  /\ pc[p] = "idle"
  /\ UNCHANGED <<born, bg>>
  /\ pc' = [pc EXCEPT ![p] = "access"]
  /\ op' = [op EXCEPT ![p] = "render"]
  /\ since' = [since EXCEPT ![p] = returned]
  /\ avoid' = [avoid EXCEPT ![p] = stale]
  /\ stale' = NoStale
  /\ UNCHANGED <<file, cache, now, nextId, nxt, items, key, out, ret,
                 returned, keysSeen>>

\* ensureDataFile: mkdir, then fs.access(DATA_FILE)
Access(p) ==
  /\ pc[p] = "access"
  /\ UNCHANGED <<born, bg>>
  /\ Goto(p, IF file.kind = "absent" THEN "init_open" ELSE "read")
  /\ UNCHANGED <<file, cache, now, nextId, op, returned, since, keysSeen,
                 stale, avoid>>

\* ensureDataFile: fs.writeFile(DATA_FILE, "[]"), the open
InitOpen(p) ==
  /\ pc[p] = "init_open"
  /\ UNCHANGED <<born, bg>>
  /\ file' = OpenTrunc(file)
  /\ Goto(p, "init_write")
  /\ UNCHANGED <<cache, now, nextId, op, returned, since, keysSeen, stale, avoid>>

\* ensureDataFile: fs.writeFile(DATA_FILE, "[]"), the write
InitWrite(p) ==
  /\ pc[p] = "init_write"
  /\ UNCHANGED <<born, bg>>
  /\ file' = WriteData(file, <<>>)
  /\ Goto(p, "read")
  /\ UNCHANGED <<cache, now, nextId, op, returned, since, keysSeen, stale, avoid>>

\* getGraffiti: readFile, JSON.parse, sort; then the caller's code up to its
\* next await
Read(p) ==
  /\ pc[p] = "read"
  /\ UNCHANGED <<born, bg>>
  /\ IF ~Parseable(file)
     THEN Finish(p, "throw", NoRet)
     ELSE LET sorted == SortByCreatedAt(file.items)
          IN CASE op[p] = "list" ->
                    Finish(p, "ok", [NoRet EXCEPT !.list = sorted])
               [] op[p] = "append" ->
                    /\ pc' = [pc EXCEPT ![p] = "a_open"]
                    /\ items' = [items EXCEPT ![p] = Pushed(sorted, nxt[p])]
                    /\ UNCHANGED <<out, ret, nxt, key>>
               [] op[p] = "render" ->
                    /\ pc' = [pc EXCEPT ![p] = "r_check"]
                    /\ items' = [items EXCEPT ![p] = sorted]
                    /\ key' = [key EXCEPT ![p] = Fingerprint(sorted)]
                    /\ UNCHANGED <<out, ret, nxt>>
  /\ UNCHANGED <<file, cache, now, nextId, op, returned, since, keysSeen,
                 stale, avoid>>

\* addGraffiti: fs.writeFile(DATA_FILE, JSON.stringify(existing)), the open
AppendOpen(p) ==
  /\ pc[p] = "a_open"
  /\ UNCHANGED <<born, bg>>
  /\ file' = OpenTrunc(file)
  /\ Goto(p, "a_write")
  /\ UNCHANGED <<cache, now, nextId, op, returned, since, keysSeen, stale, avoid>>

\* every other item made so far, and every item of the written file, has
\* another createdAt
DistinctInstant(it, s) ==
  /\ \A i \in DOMAIN s : s[i].id # it.id => s[i].createdAt # it.createdAt
  /\ \A j \in DOMAIN born : j # it.id => born[j] # it.createdAt

\* addGraffiti: the write, and return next
AppendWrite(p) ==
  /\ pc[p] = "a_write"
  /\ UNCHANGED <<born, bg>>
  /\ file' = WriteData(file, items[p])
  /\ returned' = returned \cup {nxt[p].id}
  /\ stale' = IF DistinctInstant(nxt[p], items[p])
              THEN [id |-> nxt[p].id, keys |-> keysSeen] ELSE NoStale
  /\ Finish(p, "ok", [NoRet EXCEPT !.item = nxt[p]])
  /\ UNCHANGED <<cache, now, nextId, op, since, keysSeen, avoid>>

\* generateWallSnapshot: mkdir, fs.access(outPath), sharp(outPath).metadata()
RenderCheck(p) ==
  /\ pc[p] = "r_check"
  /\ UNCHANGED <<born, bg>>
  /\ IF CacheHit(cache[key[p]])
     THEN /\ Finish(p, "ok", [NoRet EXCEPT
                              !.snap = Cached(items[p], key[p], cache[key[p]]),
                              !.list = items[p],
                              !.art = cache[key[p]].overlays])
          /\ keysSeen' = keysSeen \cup {key[p]}
     ELSE /\ Goto(p, "r_compose")
          /\ UNCHANGED keysSeen
  /\ UNCHANGED <<file, cache, now, nextId, op, returned, since, stale, avoid>>

\* the item loop reaches a fetch before it reaches an item it throws on
NeedsFetch(s) ==
  \E i \in DOMAIN s : Fetched(s[i]) /\ \A j \in 1..(i - 1) : ~Throws(s[j])

\* generateWallSnapshot: the rest of the item loop, composite().toBuffer(),
\* and the open of fs.writeFile(outPath, snapshotBuffer); an item the loop
\* throws on ends the call before anything is written
Composite(p) ==
  IF \E i \in DOMAIN items[p] : Throws(items[p][i])
  THEN /\ Finish(p, "throw", NoRet)
       /\ UNCHANGED cache
  ELSE /\ cache' = [cache EXCEPT ![key[p]] = ZeroSnap]
       /\ Goto(p, "r_write")

\* generateWallSnapshot after a cache miss: resolveBackgroundPath, readFile,
\* metadata, then the item loop up to its first fetch, or to the end
RenderCompose(p) ==
  /\ pc[p] = "r_compose"
  /\ UNCHANGED <<born, bg>>
  /\ IF ~BackgroundUsable(bg)
     THEN /\ Finish(p, "throw", NoRet)
          /\ UNCHANGED cache
     ELSE IF NeedsFetch(items[p])
     THEN /\ Goto(p, "r_fetch")
          /\ UNCHANGED cache
     ELSE Composite(p)
  /\ UNCHANGED <<file, now, nextId, op, returned, since, keysSeen, stale, avoid>>

\* loadImageSource: fetch(imageUrl) and response.arrayBuffer() settle, for
\* every remote item of the wall; the call goes on from there.  The remote
\* end decides when, and whether, this happens: fetch is given no signal.
FetchSettles(p) ==
  /\ pc[p] = "r_fetch"
  /\ UNCHANGED <<born, bg>>
  /\ Composite(p)
  /\ UNCHANGED <<file, now, nextId, op, returned, since, keysSeen, stale, avoid>>

\* the operator replaces, removes or restores the background image between
\* two calls
BackgroundChange(b) ==
  /\ \A p \in Tasks : pc[p] = "idle"
  /\ b # bg
  /\ bg' = b
  /\ UNCHANGED <<file, cache, now, nextId, pc, op, nxt, items, key, out, ret,
                 returned, since, keysSeen, stale, avoid, born>>

\* generateWallSnapshot: fs.writeFile(outPath, snapshotBuffer) writes the
\* buffer chunk by chunk, awaiting each write; a buffer of one chunk goes
\* straight to RenderWrite
RenderChunk(p) ==
  /\ pc[p] = "r_write"
  /\ cache[key[p]].kind = "zero"
  /\ UNCHANGED <<born, bg>>
  /\ cache' = [cache EXCEPT ![key[p]] = PartialSnap(items[p], key[p])]
  /\ Goto(p, "r_write")
  /\ UNCHANGED <<file, now, nextId, op, returned, since, keysSeen, stale, avoid>>

\* generateWallSnapshot: the last write of the snapshot, and the return
RenderWrite(p) ==
  /\ pc[p] = "r_write"
  /\ UNCHANGED <<born, bg>>
  /\ cache' = [cache EXCEPT ![key[p]] = PngSnap(items[p], key[p])]
  /\ keysSeen' = keysSeen \cup {key[p]}
  /\ Finish(p, "ok", [NoRet EXCEPT
                         !.snap = Rendered(items[p], key[p]),
                         !.list = items[p],
                         !.art = Overlays(items[p])])
  /\ UNCHANGED <<file, now, nextId, op, returned, since, stale, avoid>>

\* the history of sequential runs is not kept, the registry stands still
NoTrack == UNCHANGED <<hist, preList, composed>> /\ UNCHANGED <<sessVars, toolVars, pathVars>>

\* Calls of any number of sessions and pollers, interleaved at their awaits.
Next ==
  \/ Tick /\ NoTrack
  \/ \E p \in Tasks, new \in ConcItems : StartAppend(p, new) /\ NoTrack
  \/ \E p \in Tasks : StartList(p) /\ NoTrack
  \/ \E p \in Tasks : StartRender(p) /\ NoTrack
  \/ \E p \in Tasks : Access(p) /\ NoTrack
  \/ \E p \in Tasks : InitOpen(p) /\ NoTrack
  \/ \E p \in Tasks : InitWrite(p) /\ NoTrack
  \/ \E p \in Tasks : Read(p) /\ NoTrack
  \/ \E p \in Tasks : AppendOpen(p) /\ NoTrack
  \/ \E p \in Tasks : AppendWrite(p) /\ NoTrack
  \/ \E p \in Tasks : RenderCheck(p) /\ NoTrack
  \/ \E p \in Tasks : RenderCompose(p) /\ NoTrack
  \/ \E p \in Tasks : RenderChunk(p) /\ NoTrack
  \/ \E p \in Tasks : RenderWrite(p) /\ NoTrack
  \/ \E p \in Tasks : Return(p) /\ NoTrack

Spec == Init /\ [][Next]_vars

\* ------------------------------------------------------- sequential runs
\* One call at a time: a call starts only when no other is running.  The
\* data file may start absent, or as an earlier run of Spec left it: an item
\* with createdAt 1 written after an item with createdAt 2 (their ids are
\* UUIDs of that earlier run, outside 1..MaxItems).
TextItem == Text

OutOfOrderFile == JsonFile(<<MkItem(TextItem, 102, 2), MkItem(TextItem, 101, 1)>>)

SeqInit ==
  /\ \/ /\ file = AbsentFile
        /\ now = 1
        /\ nextId = 1
        /\ returned = {}
     \/ /\ file = OutOfOrderFile
        /\ now = 2
        /\ nextId = 1
        /\ returned = {101, 102}
  /\ cache = [k \in Keys |-> AbsentSnap]
  /\ pc = [p \in Tasks |-> "idle"]
  /\ op = [p \in Tasks |-> "none"]
  /\ nxt = [p \in Tasks |-> NoItem]
  /\ items = [p \in Tasks |-> <<>>]
  /\ key = [p \in Tasks |-> 0]
  /\ out = [p \in Tasks |-> "none"]
  /\ ret = [p \in Tasks |-> NoRet]
  /\ since = [p \in Tasks |-> {}]
  /\ keysSeen = {}
  /\ stale = NoStale
  /\ avoid = [p \in Tasks |-> NoStale]
  /\ hist = <<>>
  /\ preList = <<>>
  /\ composed = FALSE
  /\ born = <<>>
  /\ bg = "ok"
  /\ spray = NoSpray
  /\ probe = NoProbe
  /\ RegistryInit

LastTwo(s) == IF Len(s) > 2 THEN SubSeq(s, Len(s) - 1, Len(s)) ELSE s

\* the history of a sequential run, read off the step just taken
Track ==
  /\ preList' = IF \E p \in Tasks : pc[p] = "idle" /\ pc'[p] # "idle"
                THEN ListView(file) ELSE preList
  /\ composed' = IF \E p \in Tasks : pc[p] = "idle" /\ pc'[p] # "idle" THEN FALSE
                 ELSE IF \E p \in Tasks : pc[p] # "r_write" /\ pc'[p] = "r_write"
                 THEN TRUE ELSE composed
  /\ hist' = IF \E p \in Tasks : pc[p] # "done" /\ pc'[p] = "done"
             THEN LET p == CHOOSE q \in Tasks : pc[q] # "done" /\ pc'[q] = "done"
                  IN LastTwo(Append(hist,
                       [op |-> op[p], out |-> out'[p], ret |-> ret'[p],
                        pre |-> preList, composed |-> composed, bg |-> bg]))
             ELSE hist

\* no other call is running
Alone(p) == \A q \in Tasks \ {p} : pc[q] = "idle"

SeqTrack == Track /\ UNCHANGED <<sessVars, toolVars, pathVars>>

SeqNext ==
  \/ Tick /\ SeqTrack
  \/ \E p \in Tasks, new \in NewItems : Alone(p) /\ StartAppend(p, new) /\ SeqTrack
  \/ \E p \in Tasks : Alone(p) /\ StartList(p) /\ SeqTrack
  \/ \E p \in Tasks : Alone(p) /\ StartRender(p) /\ SeqTrack
  \/ \E p \in Tasks : Alone(p) /\ Access(p) /\ SeqTrack
  \/ \E p \in Tasks : Alone(p) /\ InitOpen(p) /\ SeqTrack
  \/ \E p \in Tasks : Alone(p) /\ InitWrite(p) /\ SeqTrack
  \/ \E p \in Tasks : Alone(p) /\ Read(p) /\ SeqTrack
  \/ \E p \in Tasks : Alone(p) /\ AppendOpen(p) /\ SeqTrack
  \/ \E p \in Tasks : Alone(p) /\ AppendWrite(p) /\ SeqTrack
  \/ \E p \in Tasks : Alone(p) /\ RenderCheck(p) /\ SeqTrack
  \/ \E p \in Tasks : Alone(p) /\ RenderCompose(p) /\ SeqTrack
  \/ \E p \in Tasks : Alone(p) /\ RenderChunk(p) /\ SeqTrack
  \/ \E p \in Tasks : Alone(p) /\ RenderWrite(p) /\ SeqTrack
  \/ \E p \in Tasks : Alone(p) /\ Return(p) /\ SeqTrack

\* ------------------------------------------------------- registry runs
\* The requests of any number of clients on /mcp, one Express handler at a
\* time up to the registry's maps: no handler awaits between its lookup and
\* the transport's handling of the request.
SessNext ==
  \/ \E sid \in Headers, body \in Bodies : Post(sid, body) /\ UNCHANGED <<storeVars, toolVars, pathVars>>
  \/ \E sid \in Headers : Get(sid) /\ UNCHANGED <<storeVars, toolVars, pathVars>>
  \/ \E sid \in Headers : Delete(sid) /\ UNCHANGED <<storeVars, toolVars, pathVars>>
  \/ \E h \in Handlers : TransportClose(h) /\ UNCHANGED <<storeVars, toolVars, pathVars>>

SessSpec == Init /\ [][SessNext]_vars

\* ------------------------------------------------------- tool-call runs
\* addGraffiti(new) run from its first line to its return with no other call
\* in between: ensureDataFile, getGraffiti, push, writeFile
AddGraffitiAlone(new) ==
  /\ nextId <= MaxItems
  /\ file' = JsonFile(Pushed(ListView(file), MkItem(new, nextId, now)))
  /\ nextId' = nextId + 1
  /\ born' = Append(born, now)
  /\ returned' = returned \cup {nextId}
  /\ UNCHANGED <<cache, now, pc, op, nxt, items, key, out, ret, since,
                 keysSeen, stale, avoid, hist, preList, composed, bg>>

\* the call is answered with an error; no handler code after the failed
\* check has run
ToolError(tool, url, blob, pos, dims, style) ==
  /\ spray' = [tool |-> tool, image_url |-> url, image_blob |-> blob,
               position |-> pos, dimensions |-> dims, style |-> style,
               error |-> TRUE, blob |-> "none", normalized |-> FALSE]
  /\ UNCHANGED storeVars

\* spray_text: McpServer validates args against sprayTextSchema, then the
\* handler runs
SprayText(pos, style) ==
  /\ IF ~(PairSchema(pos) /\ StyleSchema(style))
     THEN ToolError("spray_text", Undefined, Undefined, pos, NoPair, style)
     ELSE LET normalizedPosition == NormalizePercentPair(pos.first, pos.second)
          IN /\ AddGraffitiAlone(
                  [type |-> "text", imageUrl |-> "",
                   position |-> [x |-> normalizedPosition.first,
                                 y |-> normalizedPosition.second],
                   dimensions |-> NoBox,
                   rotation |-> style.rotation, opacity |-> style.opacity])
             /\ spray' = [tool |-> "spray_text", image_url |-> Undefined,
                          image_blob |-> Undefined, position |-> pos,
                          dimensions |-> NoPair, style |-> style,
                          error |-> FALSE, blob |-> "none",
                          normalized |-> normalizedPosition.normalized]

\* spray_image: McpServer validates args against sprayImageSchema, then the
\* handler runs: sprayImageInput.parse, normalizePercentPair twice,
\* image_url ?? saveImageBlob(image_blob), addGraffiti
SprayImage(url, blob, pos, dims, style) ==
  /\ IF ~(UrlSchema(url) /\ PairSchema(pos) /\ PairSchema(dims) /\ StyleSchema(style))
     THEN ToolError("spray_image", url, blob, pos, dims, style)
     ELSE IF ~Refine(url, blob)
     THEN ToolError("spray_image", url, blob, pos, dims, style)
     ELSE LET normalizedPosition == NormalizePercentPair(pos.first, pos.second)
              normalizedDimensions == NormalizePercentPair(dims.first, dims.second)
              imageUrl == IF url # Undefined THEN url ELSE SaveImageBlob(blob)
          IN /\ AddGraffitiAlone(
                  [type |-> "image", imageUrl |-> imageUrl,
                   position |-> [x |-> normalizedPosition.first,
                                 y |-> normalizedPosition.second],
                   dimensions |-> [width |-> normalizedDimensions.first,
                                   height |-> normalizedDimensions.second],
                   rotation |-> style.rotation, opacity |-> style.opacity])
             /\ spray' = [tool |-> "spray_image", image_url |-> url,
                          image_blob |-> blob, position |-> pos,
                          dimensions |-> dims, style |-> style, error |-> FALSE,
                          blob |-> IF url # Undefined THEN "none" ELSE imageUrl,
                          normalized |-> normalizedPosition.normalized
                                           \/ normalizedDimensions.normalized]

\* One tool call on the store that does not exist yet.
ToolNext ==
  \/ /\ spray = NoSpray
     /\ \E pos \in Pairs, style \in Styles :
          SprayText(pos, style) /\ UNCHANGED <<sessVars, pathVars>>
  \/ /\ spray = NoSpray
     /\ \E url \in UrlInputs, blob \in BlobInputs, pos \in Pairs, dims \in Pairs,
           style \in Styles :
          SprayImage(url, blob, pos, dims, style) /\ UNCHANGED <<sessVars, pathVars>>

ToolSpec == Init /\ [][ToolNext]_vars

\* ------------------------------------------------------------ path probes
\* One loadImageSource call on a local image reference per run.
LoadLocal(imageUrl) ==
  /\ probe = NoProbe
  /\ probe' = LoadLocalSource(imageUrl)
  /\ UNCHANGED <<storeVars, sessVars, toolVars>>

PathNext ==
  \/ \E imageUrl \in LocalUrls : LoadLocal(imageUrl)

PathSpec == Init /\ [][PathNext]_vars

SeqSpec == SeqInit /\ [][SeqNext]_vars

\* ------------------------------------------------- runs of the compositor
\* Sequential runs from the absent store, over walls with images that do not
\* resolve or do not decode, while the operator changes the background.
RenderNext ==
  \/ Tick /\ SeqTrack
  \/ \E p \in Tasks, new \in RenderItems : Alone(p) /\ StartAppend(p, new) /\ SeqTrack
  \/ \E p \in Tasks : Alone(p) /\ StartList(p) /\ SeqTrack
  \/ \E p \in Tasks : Alone(p) /\ StartRender(p) /\ SeqTrack
  \/ \E p \in Tasks : Alone(p) /\ Access(p) /\ SeqTrack
  \/ \E p \in Tasks : Alone(p) /\ InitOpen(p) /\ SeqTrack
  \/ \E p \in Tasks : Alone(p) /\ InitWrite(p) /\ SeqTrack
  \/ \E p \in Tasks : Alone(p) /\ Read(p) /\ SeqTrack
  \/ \E p \in Tasks : Alone(p) /\ AppendOpen(p) /\ SeqTrack
  \/ \E p \in Tasks : Alone(p) /\ AppendWrite(p) /\ SeqTrack
  \/ \E p \in Tasks : Alone(p) /\ RenderCheck(p) /\ SeqTrack
  \/ \E p \in Tasks : Alone(p) /\ RenderCompose(p) /\ SeqTrack
  \/ \E p \in Tasks : Alone(p) /\ RenderChunk(p) /\ SeqTrack
  \/ \E p \in Tasks : Alone(p) /\ RenderWrite(p) /\ SeqTrack
  \/ \E p \in Tasks : Alone(p) /\ Return(p) /\ SeqTrack
  \/ \E b \in BackgroundStates : BackgroundChange(b) /\ SeqTrack

RenderSpec == Init /\ [][RenderNext]_vars

\* ------------------------------------------------ runs with a remote source
\* Sequential runs from the absent store over walls with remote images.  The
\* steps of a call that is running are taken sooner or later (Node runs every
\* continuation that is ready); nothing makes the remote end answer.
LiveStep ==
  \E p \in Tasks :
    /\ Alone(p)
    /\ \/ Access(p) \/ InitOpen(p) \/ InitWrite(p) \/ Read(p)
       \/ AppendOpen(p) \/ AppendWrite(p)
       \/ RenderCheck(p) \/ RenderCompose(p) \/ RenderChunk(p) \/ RenderWrite(p)
    /\ SeqTrack

LiveNext ==
  \/ Tick /\ SeqTrack
  \/ \E p \in Tasks, new \in LiveItems : Alone(p) /\ StartAppend(p, new) /\ SeqTrack
  \/ \E p \in Tasks : Alone(p) /\ StartList(p) /\ SeqTrack
  \/ \E p \in Tasks : Alone(p) /\ StartRender(p) /\ SeqTrack
  \/ \E p \in Tasks : Alone(p) /\ Access(p) /\ SeqTrack
  \/ \E p \in Tasks : Alone(p) /\ InitOpen(p) /\ SeqTrack
  \/ \E p \in Tasks : Alone(p) /\ InitWrite(p) /\ SeqTrack
  \/ \E p \in Tasks : Alone(p) /\ Read(p) /\ SeqTrack
  \/ \E p \in Tasks : Alone(p) /\ AppendOpen(p) /\ SeqTrack
  \/ \E p \in Tasks : Alone(p) /\ AppendWrite(p) /\ SeqTrack
  \/ \E p \in Tasks : Alone(p) /\ RenderCheck(p) /\ SeqTrack
  \/ \E p \in Tasks : Alone(p) /\ RenderCompose(p) /\ SeqTrack
  \/ \E p \in Tasks : Alone(p) /\ RenderChunk(p) /\ SeqTrack
  \/ \E p \in Tasks : Alone(p) /\ RenderWrite(p) /\ SeqTrack
  \/ \E p \in Tasks : Alone(p) /\ Return(p) /\ SeqTrack
  \/ \E p \in Tasks : Alone(p) /\ FetchSettles(p) /\ SeqTrack

LiveSpec == Init /\ [][LiveNext]_vars /\ WF_vars(LiveStep)

\* ------------------------------------------- runs from a damaged data file
\* Sequential runs that start with no data file, or with one that is cut
\* short, holds a JSON object, or holds an array with an entry that is no
\* GraffitiItem.
CorruptFiles == {CutFile, ObjectFile, JsonFile(<<Junk>>)}

CorruptInit ==
  /\ file \in {AbsentFile} \cup CorruptFiles
  /\ now = 1
  /\ nextId = 1
  /\ returned = {}
  /\ cache = [k \in Keys |-> AbsentSnap]
  /\ pc = [p \in Tasks |-> "idle"]
  /\ op = [p \in Tasks |-> "none"]
  /\ nxt = [p \in Tasks |-> NoItem]
  /\ items = [p \in Tasks |-> <<>>]
  /\ key = [p \in Tasks |-> 0]
  /\ out = [p \in Tasks |-> "none"]
  /\ ret = [p \in Tasks |-> NoRet]
  /\ since = [p \in Tasks |-> {}]
  /\ keysSeen = {}
  /\ stale = NoStale
  /\ avoid = [p \in Tasks |-> NoStale]
  /\ hist = <<>>
  /\ preList = <<>>
  /\ composed = FALSE
  /\ born = <<>>
  /\ bg = "ok"
  /\ spray = NoSpray
  /\ probe = NoProbe
  /\ RegistryInit

CorruptSpec == CorruptInit /\ [][SeqNext]_vars

\* ------------------------------------------------------------------ claims
Quiet == \A p \in Tasks : pc[p] \in {"idle", "done"}

Ended(p, o) == pc[p] = "done" /\ op[p] = o

RemoveAt(s, k) == SubSeq(s, 1, k - 1) \o SubSeq(s, k + 1, Len(s))

\* C1: once every append started against the initially absent store has
\* returned and no call is running, the data file lists exactly the returned
\* items: as many entries as appends returned, with the returned ids, none
\* lost and none twice.
C1_NoLostAppend ==
  (Quiet /\ returned # {}) =>
    /\ Parseable(file)
    /\ Len(file.items) = Cardinality(returned)
    /\ Ids(file.items) = returned

\* C2: a list() never fails because a write of the data file is in progress
\* or has left the file incomplete: no getGraffiti call ends by throwing.
C2_ListNeverSeesPartialWrite ==
  \A p \in Tasks : ~(Ended(p, "list") /\ out[p] = "throw")

\* C3: every item an append had returned when a list() started is in the
\* result of that list() (so the results of successive lists only grow).
C3_ListContainsReturned ==
  \A p \in Tasks :
    (Ended(p, "list") /\ out[p] = "ok") => since[p] \subseteq Ids(ret[p].list)

\* C4: in a sequential run, when an append is followed directly by a list(),
\* the list succeeds, the returned record is new and occurs once in it, and
\* taking it out leaves exactly the list() of before the append: the prior
\* entries, unchanged, in the same order.
C4_AppendThenList ==
  (/\ Len(hist) = 2
   /\ hist[1].op = "append" /\ hist[1].out = "ok"
   /\ hist[2].op = "list") =>
    LET before == hist[1].pre
        it == hist[1].ret.item
        after == hist[2].ret.list
    IN /\ hist[2].out = "ok"
       /\ it.id \notin Ids(before)
       /\ Len(after) = Len(before) + 1
       /\ \E k \in DOMAIN after : after[k] = it /\ RemoveAt(after, k) = before

\* C4 witness: an append onto a wall of two items that were persisted out of
\* createdAt order, then a list of the three
C4_Witness ==
  /\ Len(hist) = 2
  /\ hist[1].op = "append" /\ hist[1].out = "ok"
  /\ hist[2].op = "list" /\ hist[2].out = "ok"
  /\ Len(hist[1].pre) = 2
  /\ Len(hist[2].ret.list) = 3
  /\ hist[1].ret.item.type = "image"

\* C5: the first render started after an append returned an item whose
\* createdAt differs from every other item's, and which lists that item,
\* computes a snapshotKey that no render had returned before that append
\* returned, and does not return from the cache a file composited without
\* the item.
C5_AppendChangesFingerprint ==
  \A p \in Tasks :
    (/\ Ended(p, "render") /\ out[p] = "ok"
     /\ avoid[p].id \in Ids(ret[p].list)) =>
      LET it == CHOOSE x \in Range(ret[p].list) : x.id = avoid[p].id
      IN /\ ret[p].snap.snapshotKey \notin avoid[p].keys
         /\ \/ ~ret[p].snap.fromCache
            \/ Skipped(it)
            \/ it.id \in Range(ret[p].art)

\* C6: a render that returns from the cache returns a file composited from
\* the items it has just listed.
C6_CacheHitShowsCurrentWall ==
  \A p \in Tasks :
    (Ended(p, "render") /\ out[p] = "ok" /\ ret[p].snap.fromCache) =>
      ret[p].art = Overlays(ret[p].list)

\* C7: in a sequential run, when a render that succeeded is followed directly
\* by another render, the second succeeds with the same snapshotKey, imageUrl,
\* width and height, reports fromCache, and has not composited or written.
C7_RenderIdempotent ==
  (/\ Len(hist) = 2
   /\ hist[1].op = "render" /\ hist[1].out = "ok"
   /\ hist[2].op = "render") =>
    LET a == hist[1].ret.snap
        b == hist[2].ret.snap
    IN /\ hist[2].out = "ok"
       /\ b.snapshotKey = a.snapshotKey
       /\ b.imageUrl = a.imageUrl
       /\ b.width = a.width /\ b.height = a.height
       /\ b.fromCache
       /\ ~hist[2].composed

\* C7 witness: a fresh composite of a non-empty wall, then a cache hit
C7_Witness ==
  /\ Len(hist) = 2
  /\ hist[1].op = "render" /\ hist[1].out = "ok"
  /\ hist[2].op = "render" /\ hist[2].out = "ok"
  /\ ~hist[1].ret.snap.fromCache /\ hist[1].composed
  /\ hist[1].ret.list # <<>>
  /\ hist[2].ret.snap.fromCache

\* C8: in a sequential run, a cache hit reports the width, height, itemCount
\* and skippedImages that the call which wrote the file returned.
C8_CacheHitMetadata ==
  (/\ Len(hist) >= 1
   /\ hist[Len(hist)].op = "render" /\ hist[Len(hist)].out = "ok"
   /\ hist[Len(hist)].ret.snap.fromCache) =>
    LET b == hist[Len(hist)].ret.snap
        m == cache[b.snapshotKey].made
    IN /\ b.width = m.width /\ b.height = m.height
       /\ b.itemCount = m.itemCount
       /\ b.skippedImages = m.skippedImages

\* C9: no two render calls are both past a cache miss for one snapshotKey,
\* each with its own composite done and its own write of the file open.
C9_SingleFlight ==
  \A p, q \in Tasks :
    (p # q /\ pc[p] = "r_write" /\ pc[q] = "r_write") => key[p] # key[q]

C11_ReleasedExactlyOnce ==
  /\ \A h \in Handlers : closes[h] <= 1
  /\ \A h \in Handlers :
       (sessionId[h] # 0 /\ hooks[h] > 0) =>
         /\ closes[h] = 1
         /\ transports[sessionId[h]] = 0
         /\ servers[sessionId[h]] = 0
  /\ \A h \in Handlers : closes[h] = 1 => hooks[h] > 0

\* C11 witness: teardown was triggered twice for one session (a DELETE and a
\* close of the transport, or two closes), and its server was closed once
C11_Witness ==
  \E h \in Handlers : hooks[h] = 2 /\ closes[h] = 1 /\ sessionId[h] \in torn

\* C12: a POST, GET or DELETE whose session id is missing, was never issued
\* or belongs to a torn-down session, and whose body is not an initialization,
\* is answered 400, creates no handler and no session, leaves both maps and
\* every handler as they were, and never reaches transport.handleRequest (so
\* no tool runs and the item store is not touched).
C12_UnknownSessionRejected ==
  (/\ resp.method # "none"
   /\ resp.body # "initialize"
   /\ (resp.sid = 0 \/ resp.sid = BogusSid \/ resp.wasTorn)) =>
    /\ resp.status = 400
    /\ resp.created = 0 /\ resp.issued = 0
    /\ ~resp.changed
    /\ ~resp.handled

\* C12 witness: a DELETE with an id that was never issued has been refused
\* while a session is live
C12_Witness ==
  /\ resp.method = "DELETE" /\ resp.sid = BogusSid /\ resp.status = 400
  /\ ~resp.changed
  /\ \E s \in Sids : transports[s] # 0

\* C13: the two maps hold the same handler under the same session ids, a
\* registered handler is registered under its own session id only (so no two
\* ids share a handler and no id has two), an id that is registered stays
\* bound to its handler until it is removed, and an id that gets registered
\* is the newly generated one, bound to the newly made handler.
C13_OneHandlerPerSession ==
  /\ [](\A s \in Sids :
          /\ transports[s] = servers[s]
          /\ transports[s] # 0 => sessionId[transports[s]] = s)
  /\ [][\A s \in Sids :
          /\ transports[s] # 0 => transports'[s] \in {0, transports[s]}
          /\ (transports[s] = 0 /\ transports'[s] # 0) =>
               /\ s = nextSid /\ s \notin torn
               /\ transports'[s] = nextHandler
               /\ sessionId[nextHandler] = 0]_vars

\* C13 witness: two sessions are live, each with its own handler, after a
\* third was torn down
C13_Witness ==
  /\ torn # {}
  /\ \E s, t \in Sids :
       /\ s # t
       /\ transports[s] # 0 /\ transports[t] # 0
       /\ transports[s] # transports[t]

\* the last call that ended, in a sequential run
Last == hist[Len(hist)]

\* the image items of s whose source does not resolve or does not decode
RECURSIVE Unusable(_)
Unusable(s) ==
  IF s = <<>> THEN 0
  ELSE (IF /\ Head(s).type = "image"
           /\ (~LoadImageSource(Head(s).imageUrl) \/ ~Decodes(Head(s).imageUrl))
        THEN 1 ELSE 0) + Unusable(Tail(s))

\* C14: in a sequential run with the background in place, every render
\* succeeds, whatever images the wall holds; a fresh composite reports as
\* skippedImages the number of image items whose source does not resolve or
\* does not decode, and has composited every other item.
C14_UnusableImageIsSkipped ==
  (Len(hist) >= 1 /\ Last.op = "render" /\ Last.bg = "ok") =>
    /\ Last.out = "ok"
    /\ ~Last.ret.snap.fromCache =>
         /\ Last.ret.snap.skippedImages = Unusable(Last.pre)
         /\ Last.ret.snap.itemCount = Len(Last.ret.art) + Last.ret.snap.skippedImages

\* C15 as claimed: in a sequential run, a render made while the background is
\* missing or has no dimensions throws, returns nothing and has not opened a
\* snapshot file for writing, whether or not its fingerprint is cached.
C15_NoBackgroundAlwaysFatal ==
  (Len(hist) >= 1 /\ Last.op = "render" /\ Last.bg # "ok") =>
    /\ Last.out = "throw"
    /\ Last.ret = NoRet
    /\ ~Last.composed

\* C15, amended: in a sequential run, a render made while the background is
\* missing or has no dimensions never opens a snapshot file for writing; if
\* no render has yet returned the fingerprint of its wall it throws and
\* returns nothing; otherwise it returns the cached snapshot, fromCache.
C15_NoBackgroundFatalOnMiss ==
  (Len(hist) >= 1 /\ Last.op = "render" /\ Last.bg # "ok") =>
    /\ ~Last.composed
    /\ Fingerprint(Last.pre) \notin keysSeen =>
         (Last.out = "throw" /\ Last.ret = NoRet)
    /\ Last.out = "ok" =>
         /\ Last.ret.snap.fromCache
         /\ Last.ret.snap.snapshotKey = Fingerprint(Last.pre)
    /\ Last.out = "throw" => Last.ret = NoRet

\* C15 witness: a render of a wall of one item, never rendered before, has
\* thrown because the background is missing
C15_Witness ==
  /\ Len(hist) >= 1 /\ Last.op = "render" /\ Last.bg = "missing"
  /\ Last.out = "throw"
  /\ Len(Last.pre) = 1
  /\ Fingerprint(Last.pre) \notin keysSeen

\* C16: in a sequential run whose ready steps are always taken, every render
\* that has started returns, with a result or an error, even if a remote
\* image source never answers.
C16_RenderReturns ==
  \A p \in Tasks : (op[p] = "render" /\ pc[p] # "idle") ~> (pc[p] = "done")

\* the data file is damaged: unparseable, no array, or an array with an entry
\* that is no GraffitiItem
Invalid(f) == f \in CorruptFiles \/ (f.kind = "json" /\ Junk \in Range(f.items))

\* C17: in a sequential run that starts with no data file the first list()
\* returns the empty sequence and the first append leaves exactly its item,
\* and no list or append fails; in one that starts with a damaged data file
\* every list() and every append throws and the file stays as it was.
C17_CorruptStoreFails ==
  /\ (/\ Len(hist) >= 1
      /\ Last.op \in {"list", "append"}
      /\ file.kind = "json" /\ ~Invalid(file)) =>
       /\ Last.out = "ok"
       /\ (Len(hist) = 1 /\ Last.op = "list") => Last.ret.list = <<>>
       /\ (Len(hist) = 1 /\ Last.op = "append" /\ Quiet) =>
            file.items = <<Last.ret.item>>
  /\ Invalid(file) => file \in CorruptFiles
  /\ \A p \in Tasks :
       (pc[p] = "done" /\ op[p] \in {"list", "append"} /\ Invalid(file)) =>
         out[p] = "throw"

\* an optional argument was supplied, with something in it
Supplied(v) == v # Undefined /\ v # ""

\* C18: a spray_image call that supplies neither image_url nor image_blob, or
\* both, is answered with an error, leaves no data file and no item behind,
\* and writes no blob file.
C18_ExactlyOneImageSource ==
  (/\ spray.tool = "spray_image"
   /\ Supplied(spray.image_url) = Supplied(spray.image_blob)) =>
    /\ spray.error
    /\ file = AbsentFile
    /\ spray.blob = "none"

\* what the normalization rule makes of a pair
Scaled(a, b) ==
  IF (0 <= a /\ a < 100) /\ (0 <= b /\ b < 100)
  THEN <<a * 100, b * 100>> ELSE <<a, b>>

\* C19: after a spray_text or spray_image call that was accepted, the data
\* file holds one item; its position is the position argument times 100 if
\* both of its components are in [0,1) and the argument itself otherwise,
\* and for an image the same holds of its dimensions, whatever the position.
C19_NormalizedPairStored ==
  (spray.tool # "none" /\ ~spray.error) =>
    /\ file.kind = "json" /\ Len(file.items) = 1
    /\ LET it == file.items[1]
       IN /\ <<it.position.x, it.position.y>> =
               Scaled(spray.position.first, spray.position.second)
          /\ spray.tool = "spray_image" =>
               <<it.dimensions.width, it.dimensions.height>> =
                 Scaled(spray.dimensions.first, spray.dimensions.second)

\* C19 witness: spray_image with position {0.5, 0.5} and dimensions {0.5, 1}
\* has stored position {50, 50} and dimensions {0.5, 1}
C19_Witness ==
  /\ spray.tool = "spray_image" /\ ~spray.error
  /\ spray.position = [first |-> 50, second |-> 50]
  /\ spray.dimensions = [first |-> 50, second |-> 100]
  /\ file.kind = "json" /\ Len(file.items) = 1
  /\ file.items[1].position = [x |-> 5000, y |-> 5000]
  /\ file.items[1].dimensions = [width |-> 50, height |-> 100]

\* the items of s have pairwise distinct ids, and each has the id and the
\* createdAt that addGraffiti gave it when it made it
AsMade(s) ==
  /\ \A i, j \in DOMAIN s : i # j => s[i].id # s[j].id
  /\ \A i \in DOMAIN s :
       /\ s[i].id \in DOMAIN born
       /\ s[i].createdAt = born[s[i].id]

\* C20: under any interleaving of calls, the ids of the items in the data
\* file are pairwise distinct, and every item in the file and in the result
\* of every list() has the id and createdAt it was made with.
C20_IdsUniqueAndFixed ==
  /\ file.kind = "json" => AsMade(file.items)
  /\ \A p \in Tasks :
       (Ended(p, "list") /\ out[p] = "ok") => AsMade(ret[p].list)
  /\ \A p \in Tasks :
       (Ended(p, "append") /\ out[p] = "ok") => AsMade(<<ret[p].item>>)

\* C20 witness: a list() has returned two items made in the same millisecond
\* by appends that overlapped
C20_Witness ==
  \E p \in Tasks :
    /\ Ended(p, "list") /\ out[p] = "ok"
    /\ Len(ret[p].list) = 2
    /\ ret[p].list[1].createdAt = ret[p].list[2].createdAt
    /\ ret[p].list[1].id # ret[p].list[2].id

\* In a sequential run item a was appended before item b: the items of the
\* file the run started with (ids above 100) came first, in the order of that
\* file, then the items of the run, in the order of their ids.
AppendedBefore(a, b) ==
  IF a.id > 100 /\ b.id > 100
  THEN \E i, j \in DOMAIN OutOfOrderFile.items :
         /\ i < j
         /\ OutOfOrderFile.items[i].id = a.id
         /\ OutOfOrderFile.items[j].id = b.id
  ELSE IF a.id > 100 THEN TRUE
  ELSE IF b.id > 100 THEN FALSE
  ELSE a.id < b.id

\* s is in non-decreasing createdAt order, ties in append order
CreationOrder(s) ==
  \A i, j \in DOMAIN s :
    i < j =>
      /\ s[i].createdAt <= s[j].createdAt
      /\ s[i].createdAt = s[j].createdAt => AppendedBefore(s[i], s[j])

\* C21: in a sequential run, from the absent store or from a file in which an
\* item with an earlier createdAt was persisted after one with a later, every
\* list() returns its items in non-decreasing createdAt order, and items with
\* the same createdAt in the order in which they were appended.
C21_ListInCreationOrder ==
  (Len(hist) >= 1 /\ Last.op = "list" /\ Last.out = "ok") =>
    CreationOrder(Last.ret.list)

\* C21 witness: a list() of three items, from the file that was persisted out
\* of order; the item appended in the run ties with one of the file
C21_Witness ==
  /\ Len(hist) >= 1 /\ Last.op = "list" /\ Last.out = "ok"
  /\ Len(Last.ret.list) = 3
  /\ Last.ret.list[1].id = 101
  /\ Last.ret.list[2].createdAt = Last.ret.list[3].createdAt

\* lo <= n <= hi
InRange(n, lo, hi) == lo <= n /\ n <= hi

\* C22: after a spray_text or spray_image call, if an item is stored, its
\* position.x and position.y are in [0,100], its rotation in [-360,360], its
\* opacity in [0,1] and, for an image, its dimensions in [0,100]; and a call
\* with one of these arguments out of range is answered with an error and
\* leaves no data file and no item behind.
C22_StoredValuesInRange ==
  /\ file.kind = "json" =>
       \A i \in DOMAIN file.items :
         LET it == file.items[i]
         IN /\ InRange(it.position.x, 0, 10000)
            /\ InRange(it.position.y, 0, 10000)
            /\ InRange(it.rotation, -36000, 36000)
            /\ InRange(it.opacity, 0, 100)
            /\ it.type = "image" =>
                 /\ InRange(it.dimensions.width, 0, 10000)
                 /\ InRange(it.dimensions.height, 0, 10000)
  /\ (/\ spray.tool # "none"
      /\ \/ ~InRange(spray.position.first, 0, 10000)
         \/ ~InRange(spray.position.second, 0, 10000)
         \/ ~InRange(spray.style.rotation, -36000, 36000)
         \/ ~InRange(spray.style.opacity, 0, 100)
         \/ /\ spray.tool = "spray_image"
            /\ \/ ~InRange(spray.dimensions.first, 0, 10000)
               \/ ~InRange(spray.dimensions.second, 0, 10000)) =>
       (spray.error /\ file = AbsentFile)

\* C22 witness: a spray_image at the edges of every range has been stored
C22_Witness ==
  /\ spray.tool = "spray_image" /\ ~spray.error
  /\ file.kind = "json" /\ Len(file.items) = 1
  /\ file.items[1].position = [x |-> 10000, y |-> 0]
  /\ file.items[1].dimensions = [width |-> 10000, height |-> 10000]
  /\ file.items[1].rotation = -36000
  /\ file.items[1].opacity = 0

\* the data file holds an item whose append has completed
HoldsCompletedAppend == file.kind = "json" /\ Ids(file.items) \cap returned # {}

\* C23: the write of "[]" by ensureDataFile never starts on a data file that
\* holds an item written by a completed append.
C23_InitNeverReplacesItems ==
  [][\A p \in Tasks : (pc[p] = "init_open" /\ pc'[p] = "init_write") => ~HoldsCompletedAppend]_vars

\* C24: a render that returns fromCache = true found a snapshot file whose
\* write had completed: never one that was still being written.
C24_HitOnlyOnCompleteFile ==
  [][\A p \in Tasks :
       (pc[p] = "r_check" /\ pc'[p] = "done" /\ ret'[p].snap.fromCache) =>
         cache[key[p]].kind = "png"]_vars

\* the last call was a render that missed the cache and composited
Miss == Len(hist) >= 1 /\ Last.op = "render" /\ Last.out = "ok" /\ ~Last.ret.snap.fromCache

\* the item of the rendered list drawn as overlay k (the k-th from the bottom)
Drawn(k) ==
  LET l == Last.ret.list
  IN l[CHOOSE i \in DOMAIN l : l[i].id = Last.ret.art[k]]

\* the overlays are the items of the rendered list that are not skipped, each
\* once, and two overlays stand as their items stand in the list
ListWithoutSkipped ==
  LET l == Last.ret.list
      a == Last.ret.art
  IN /\ \A i \in DOMAIN l : ~Skipped(l[i]) <=> \E k \in DOMAIN a : a[k] = l[i].id
     /\ \A j, k \in DOMAIN a : j # k => a[j] # a[k]
     /\ \A i, j \in DOMAIN l, m, n \in DOMAIN a :
          (i < j /\ a[m] = l[i].id /\ a[n] = l[j].id) => m < n

Segments(str) == NormalizeSegments(Split(str), <<>>)

\* str names something strictly below the asset root
StrictlyInside(str) ==
  /\ Len(Segments(str)) > Len(Segments(PUBLIC_DIR))
  /\ SubSeq(Segments(str), 1, Len(Segments(PUBLIC_DIR))) = Segments(PUBLIC_DIR)

\* the local reference, resolved against the asset root
Resolved(imageUrl) == Absolute(Segments(PUBLIC_DIR \o <<"/">> \o imageUrl))

\* C26: for an image reference starting with "/", loadImageSource hands a
\* path to fs.readFile only if the reference, "." and ".." resolved against
\* the asset root, lies strictly inside the root, and then it is that path;
\* a reference that escapes the root or resolves to the root itself yields no
\* bytes and no read; bytes come only from a file under the root.
C26_LocalReadInsideRoot ==
  probe # NoProbe =>
    /\ probe.read # NoPath =>
         /\ StrictlyInside(Resolved(probe.url))
         /\ probe.read = Resolved(probe.url)
    /\ ~StrictlyInside(Resolved(probe.url)) =>
         (probe.read = NoPath /\ ~probe.bytes)
    /\ probe.bytes => (probe.read \in Files /\ StrictlyInside(probe.read))

\* C26 witness: "/../pe" names the existing file /a/pe beside the root, whose
\* path starts with the root's; it was refused
C26_Witness ==
  /\ probe.url = <<"/", ".", ".", "/", "p", "e">>
  /\ Resolved(probe.url) \in Files
  /\ probe.read = NoPath
  /\ ~probe.bytes

====
